---------------------------- MODULE Spec2Model ----------------------------
(***************************************************************************)
(* HR chatbot agent: the HTTP chat routes (POST /chat, POST                *)
(* /chat/:threadId), callAgent, and the agent <-> tools state graph it     *)
(* compiles and invokes with a MongoDB checkpointer keyed by thread_id.    *)
(*                                                                         *)
(* One "run" is one HTTP request and the callAgent call it makes.  Runs    *)
(* interleave at their awaits: the checkpoint load, every superstep of the *)
(* graph (each ends with a checkpoint save), every similarity search of a  *)
(* tools superstep, and the final return.                                  *)
(***************************************************************************)
EXTENDS Integers, Sequences, FiniteSets

(***************************************************************************)
(* Bounds of the model (not program constants).                            *)
(***************************************************************************)
\* number of HTTP requests (callAgent runs)
MaxRuns == 2
\* number of distinct clock readings Date.now() can return
MaxClock == 2
\* AI messages that request tools, over all runs
MaxToolRequests == 2
\* AI messages other than the two usual ones (plain answer, one default call)
MaxRich == 1
\* external-service failures (load, save, chat model, search)
MaxFaults == 1
\* records the data generator returns in one seeding
MaxRecords == 3
\* distinct employee_id values the data generator can use
MaxIds == 2

(***************************************************************************)
(* Program constants.                                                      *)
(***************************************************************************)
\* { recursionLimit: 15, ... } passed to app.invoke
RecursionLimit == 15
\* n = 10 / .default(10) of the employee_lookup schema
DefaultN == 10

Runs == 1..(IF MaxRuns > 2 THEN MaxRuns ELSE 2)

(***************************************************************************)
(* Thread ids.  POST /chat makes one with Date.now().toString(); a thread  *)
(* id is the decimal string of a clock reading, modelled as its digits.    *)
(***************************************************************************)
\* first clock reading of the model; the readings are FirstClock .. +MaxClock-1
FirstClock == 9
Clocks == FirstClock..(FirstClock + MaxClock - 1)

RECURSIVE ToString(_)
ToString(n) == IF n < 10 THEN <<n>> ELSE ToString(n \div 10) \o <<n % 10>>

\* the thread ids a client can send to POST /chat/:threadId
ThreadIds == {ToString(c) : c \in Clocks}

(***************************************************************************)
(* Messages.  Every message is a record of one shape:                      *)
(*   role    "human", "ai" or "tool"                                       *)
(*   run     the run whose step created it                                 *)
(*   at      the node superstep of that run that created it (0: the input) *)
(*   content the text, a token <<run, at, i>>                              *)
(*   hasTC   whether the message has a tool_calls field                    *)
(*   calls   its tool calls, each [id, n]                                  *)
(*   call_id (tool role) the id of the call it answers                     *)
(*   ok      (tool role) FALSE for an error result                         *)
(***************************************************************************)
NoId == <<0, 0, 0>>
NoText == <<>>

HumanMessage(r) ==
  [role |-> "human", run |-> r, at |-> 0, content |-> <<r, 0, 0>>,
   hasTC |-> FALSE, calls |-> <<>>, call_id |-> NoId, ok |-> TRUE]

AIMessage(r, k, tc, cs) ==
  [role |-> "ai", run |-> r, at |-> k, content |-> <<r, k, 0>>,
   hasTC |-> tc, calls |-> cs, call_id |-> NoId, ok |-> TRUE]

ToolMessage(r, k, i, id, good) ==
  [role |-> "tool", run |-> r, at |-> k, content |-> <<r, k, i>>,
   hasTC |-> FALSE, calls |-> <<>>, call_id |-> id, ok |-> good]

(***************************************************************************)
(* The n argument of an employee_lookup call as the chat model sends it:   *)
(* left out, a number, or something that is not a number.                  *)
(***************************************************************************)
Absent == [kind |-> "absent", val |-> 0]
Num(v) == [kind |-> "number", val |-> v]
NotANumber == [kind |-> "string", val |-> 0]
NVals == {Absent, Num(-1), Num(0), Num(2), NotANumber}

\* how many tool calls one AI message carries
CallCounts == {1, 2}

ToolCall(r, k, i, n) == [id |-> <<r, k, i>>, n |-> n]

\* the tool_calls lists the chat model can produce at
\* superstep k of run r
CallLists(r, k) ==
  UNION {{[i \in 1..len |-> ToolCall(r, k, i, f[i])] : f \in [1..len -> NVals]}
         : len \in CallCounts}

DefaultCalls(r, k) == <<ToolCall(r, k, 1, Absent)>>

IsPrefix(s, t) == Len(s) <= Len(t) /\ SubSeq(t, 1, Len(s)) = s
Last(s) == s[Len(s)]

(***************************************************************************)
(* The pure parts of callAgent.                                            *)
(***************************************************************************)
\* (mutant) a reducer that keeps the update alone
ReducerOverwrite(x, y) == y

\* (mutant) a reducer that puts the update in front
ReducerPrepend(x, y) == y \o x

\* reducer: (x, y) => x.concat(y)
Reducer(x, y) == x \o y

\* (mutant) if (lastMessage.tool_calls): an empty list is truthy
ShouldContinueField(ms) == IF Last(ms).hasTC THEN "tools" ELSE "end"

\* shouldContinue: lastMessage.tool_calls?.length is truthy exactly when the
\* field is there and the list is not empty
ShouldContinue(ms) ==
  IF Last(ms).hasTC /\ Len(Last(ms).calls) # 0 THEN "tools" ELSE "end"

\* .addEdge("tools", "agent")
ToolsEdge == "agent"

\* the schema of employee_lookup, z.number().optional().default(10): any
\* number passes, an absent n becomes 10, anything else is a parse error
ZodValid(n) == n.kind \in {"absent", "number"}
ZodParse(n) == IF n.kind = "absent" THEN DefaultN ELSE n.val

\* vectorStore.similaritySearchWithScore(query, n): the store answers a limit
\* that is not positive with an error, and so does a failing service
SearchOk(k, fault) == k > 0 /\ ~fault

\* the calls of a tools step that reach the tool body
BodyCalls(cs) == {i \in 1..Len(cs) : ZodValid(cs[i].n)}

\* (mutant) a ToolNode that runs the first call only
ToolNodeFirst(r, k, cs, faults) ==
  <<ToolMessage(r, k, 1, cs[1].id,
                ZodValid(cs[1].n) /\ SearchOk(ZodParse(cs[1].n), 1 \in faults))>>

\* ToolNode: one ToolMessage per call of the last AI message, in call order,
\* with tool_call_id = call.id; an error of the tool (a schema error, or one
\* thrown by its body) becomes an error ToolMessage
ToolNode(r, k, cs, faults) ==
  [i \in 1..Len(cs) |->
     ToolMessage(r, k, i, cs[i].id,
                 ZodValid(cs[i].n) /\ SearchOk(ZodParse(cs[i].n), i \in faults))]

\* (mutant) a ceiling that is checked one superstep late
OutOfStepsLate(n) == n > RecursionLimit

\* The loop of app.invoke counts the __start__ superstep and then the node
\* supersteps; before preparing the next superstep it stops with
\* GraphRecursionError once the count has passed recursionLimit, that is
\* once RecursionLimit node supersteps have run.
OutOfSteps(n) == n >= RecursionLimit

\* (mutant) the content of the first message
FinalAnswerFirst(ms) == ms[1].content

\* finalState.messages[finalState.messages.length - 1].content
FinalAnswer(ms) == Last(ms).content

\* (mutant) a load that ignores thread_id
GetTupleAny(store, tid) == store[ToString(FirstClock)]

\* checkpointer.getTuple for thread_id: the latest checkpoint of that thread
GetTuple(store, tid) == store[tid]

\* (mutant) a save that inserts the first checkpoint and never replaces it
PutIfAbsent(store, tid, ms) ==
  IF store[tid] = <<>> THEN [store EXCEPT ![tid] = ms] ELSE store

\* (mutant) a save that keeps the longer of the two sequences
PutLongest(store, tid, ms) ==
  IF Len(ms) >= Len(store[tid]) THEN [store EXCEPT ![tid] = ms] ELSE store

\* checkpointer.put for thread_id: the new checkpoint becomes the latest one
PutCheckpoint(store, tid, ms) == [store EXCEPT ![tid] = ms]

\* res.json({ threadId, response }) and res.json({ response })
OkResponse(k, tid, answer) ==
  [status |-> 200, threadId |-> IF k = "new" THEN tid ELSE <<>>,
   response |-> answer, error |-> ""]

\* (mutant) res.json({ error }) without status(500)
ErrorResponseNoStatus ==
  [status |-> 200, threadId |-> <<>>, response |-> NoText,
   error |-> "Internal server error"]

\* res.status(500).json({ error: 'Internal server error' })
ErrorResponse ==
  [status |-> 500, threadId |-> <<>>, response |-> NoText,
   error |-> "Internal server error"]

NoResponse == [status |-> 0, threadId |-> <<>>, response |-> NoText, error |-> ""]

(***************************************************************************)
(* The Record Store: the employees collection of hr_database, a sequence   *)
(* of documents in insertion order (MongoDB gives every inserted document  *)
(* its own _id, so equal documents are stored side by side).               *)
(***************************************************************************)
EmployeeIds == 1..MaxIds
FirstNames == {"a", "b"}

\* an employee record as EmployeeSchema parses it; of its fields the model
\* keeps employee_id and one other
Employee(id, nm) == [employee_id |-> id, first_name |-> nm]
Employees == {Employee(id, nm) : id \in EmployeeIds, nm \in FirstNames}

\* what generateSyntheticData can return: parser.parse accepts every array
\* of records that fit EmployeeSchema
Generated ==
  UNION {[1..len -> Employees] : len \in 0..MaxRecords}

\* createEmployeeSummary: a text built from the record's fields other than
\* employee_id
CreateEmployeeSummary(e) == <<e.first_name>>

\* recordsWithSummaries: { pageContent: summary, metadata: { ...record } }
WithSummary(e) == [pageContent |-> CreateEmployeeSummary(e), metadata |-> e]
RecordsWithSummaries(data) == [i \in 1..Len(data) |-> WithSummary(data[i])]

\* the document MongoDBAtlasVectorSearch stores for a record: the text under
\* textKey and the metadata fields
StoredDocument(rec) ==
  [employee_id |-> rec.metadata.employee_id,
   first_name |-> rec.metadata.first_name,
   embedding_text |-> rec.pageContent]

\* MongoDBAtlasVectorSearch.fromDocuments([record], ...): one more document
\* in the collection
FromDocuments(coll, rec) == Append(coll, StoredDocument(rec))

\* collection.deleteMany({})
DeleteMany(coll) == <<>>

\* (mutant) a search that consumes the documents it returns
SearchConsuming(coll, k) == IF k > 0 /\ coll # <<>> THEN Tail(coll) ELSE coll

\* vectorStore.similaritySearchWithScore(query, n) as it acts on the
\* collection: an aggregation that reads it
SearchCollection(coll, k) == coll

\* the employees collection the chat server runs against: seeded, one
\* record per employee_id
SeededStore ==
  [i \in 1..MaxIds |-> StoredDocument(WithSummary(Employee(i, "a")))]

\* the contents the collection can have when seedDatabase starts
EarlierStores == {<<>>, SeededStore}

\* no search of the tools step in progress has been answered
NoSearch == [done |-> {}, failed |-> {}]

\* seedDatabase is not running
NotSeeding == [pc |-> "none", data |-> <<>>, ok |-> TRUE]

(***************************************************************************)
(* State.                                                                  *)
(*   arrived    number of requests received so far                         *)
(*   kind[r]    "new" (POST /chat) or "continue" (POST /chat/:threadId)    *)
(*   thread[r]  the thread_id callAgent is called with                     *)
(*   pc[r]      where run r is: "idle", "start", "agent", "tools", "end",  *)
(*              "responded"                                                *)
(*   msgs[r]    the messages channel of run r's graph state                *)
(*   steps[r]   node supersteps (agent or tools) run r has executed        *)
(*   outcome[r] "none", "ok", or why callAgent threw                       *)
(*   resp[r]    the HTTP response sent; sent[r] counts the responses       *)
(*   ckpt       the checkpointer: thread_id -> messages of its latest      *)
(*              checkpoint                                                 *)
(*   searchLog  the similarity searches issued and answered: [id, k] per   *)
(*              tool body run                                              *)
(*   search[r]  the tools step of run r in progress: [done, failed], the   *)
(*              calls (by position) whose tool body has its answer, and    *)
(*              those among them the embedding service or the search       *)
(*              failed                                                     *)
(*   cap        the limits of this exploration: [runs, tools, rich,        *)
(*              faults], the number of requests, of AI messages that       *)
(*              request tools, of AI messages other than the two usual     *)
(*              ones, and of external-service failures                     *)
(*   toolReqs, richUsed, faults   what the environment has used of         *)
(*              cap.tools, cap.rich and cap.faults                         *)
(* History kept for the properties:                                        *)
(*   lastNode[r]   the node run r executed last ("none", "agent", "tools") *)
(*   baseLen[r]    length of the sequence run r loaded                     *)
(*   prev[r]       the run that ended last under thread[r] when r was      *)
(*                 called with no other run of that thread in progress     *)
(*                 (0: none)                                               *)
(*   overlap[r]    whether r was ever in progress together with another    *)
(*                 run of its thread                                       *)
(*   lastFin[t]    the run that ended last under thread t (0: none)        *)
(*   lastWriter[t] the run that saved last under thread t (0: none)        *)
(* The Record Store and its seeding script:                                *)
(*   employees  the documents of the employees collection                  *)
(*   seed       seedDatabase: [pc, data, ok], where it is ("none",         *)
(*              "connect", "clear", "generate", "insert", "done"), the     *)
(*              records with summaries still to store, and whether it has  *)
(*              caught no error                                            *)
(***************************************************************************)
VARIABLES cap, arrived, kind, thread, pc, msgs, steps, outcome, resp, sent,
          ckpt, searchLog, toolReqs, richUsed, faults,
          lastNode, baseLen, prev, overlap, lastFin, lastWriter, search,
          employees, seed

agentVars == <<cap, arrived, kind, thread, pc, msgs, steps, outcome, resp, sent,
               ckpt, searchLog, toolReqs, richUsed, faults,
               lastNode, baseLen, prev, overlap, lastFin, lastWriter, search>>

vars == <<agentVars, employees, seed>>

InProgress == {"start", "agent", "tools", "end"}

\* the runs of thread t in progress
Active(t) == {q \in Runs : pc[q] \in InProgress /\ thread[q] = t}

\* a run of RecursionLimit node supersteps holds this many agent steps
AgentStepsAtLimit == (RecursionLimit + 1) \div 2

Begin(c) ==
  /\ cap = c
  /\ arrived = 0
  /\ kind = [r \in Runs |-> "none"]
  /\ thread = [r \in Runs |-> <<>>]
  /\ pc = [r \in Runs |-> "idle"]
  /\ msgs = [r \in Runs |-> <<>>]
  /\ steps = [r \in Runs |-> 0]
  /\ outcome = [r \in Runs |-> "none"]
  /\ resp = [r \in Runs |-> NoResponse]
  /\ sent = [r \in Runs |-> 0]
  /\ ckpt = [t \in ThreadIds |-> <<>>]
  /\ searchLog = {}
  /\ toolReqs = 0
  /\ richUsed = 0
  /\ faults = 0
  /\ lastNode = [r \in Runs |-> "none"]
  /\ baseLen = [r \in Runs |-> 0]
  /\ prev = [r \in Runs |-> 0]
  /\ overlap = [r \in Runs |-> FALSE]
  /\ lastFin = [t \in ThreadIds |-> 0]
  /\ lastWriter = [t \in ThreadIds |-> 0]
  /\ search = [r \in Runs |-> NoSearch]

(***************************************************************************)
(* The explorations.  Each is generous in one direction.                   *)
(***************************************************************************)
\* several requests racing, the chat model giving its two usual answers (a
\* plain answer, or one call with the default n)
Threads == [runs |-> MaxRuns, tools |-> 1, rich |-> 0, faults |-> 0]
\* two requests, with external-service failures
Faulty == [runs |-> 2, tools |-> 1, rich |-> 0, faults |-> MaxFaults]
\* one request, the chat model free to request tools up to the ceiling
Looping == [runs |-> 1, tools |-> AgentStepsAtLimit, rich |-> 0, faults |-> 1]
\* one request, the chat model free to answer with unusual tool calls
Calling == [runs |-> 1, tools |-> MaxToolRequests, rich |-> MaxRich,
            faults |-> MaxFaults]

\* the chat server, running against a seeded Record Store
Init ==
  /\ \E c \in {Threads, Faulty, Looping, Calling} : Begin(c)
  /\ employees = SeededStore
  /\ seed = NotSeeding

\* callAgent throws `why`: the route's catch answers 500
Throw(r, why) ==
  /\ pc' = [pc EXCEPT ![r] = "responded"]
  /\ outcome' = [outcome EXCEPT ![r] = why]
  /\ resp' = [resp EXCEPT ![r] = ErrorResponse]
  /\ sent' = [sent EXCEPT ![r] = @ + 1]
  /\ lastFin' = [lastFin EXCEPT ![thread[r]] = r]

\* A request arrives, at some clock reading.  POST /chat:
\* threadId = Date.now().toString(); POST /chat/:threadId: threadId =
\* req.params.threadId.  The handler calls callAgent, and app.invoke loads
\* the latest checkpoint of thread_id into the graph state (or the load
\* fails).  The step is taken when the checkpointer serves the read.
Request(r) ==
  /\ pc[r] = "idle"
  /\ r = arrived + 1
  /\ r <= cap.runs
  /\ arrived' = r
  /\ \E k \in {"new", "continue"} :
       \E t \in IF k = "new" THEN {ToString(c) : c \in Clocks} ELSE ThreadIds :
         /\ kind' = [kind EXCEPT ![r] = k]
         /\ thread' = [thread EXCEPT ![r] = t]
         /\ prev' = [prev EXCEPT ![r] = IF Active(t) = {} THEN lastFin[t] ELSE 0]
         /\ overlap' = [q \in Runs |->
                          IF q = r THEN Active(t) # {}
                          ELSE overlap[q] \/ q \in Active(t)]
         /\ \/ /\ msgs' = [msgs EXCEPT ![r] = GetTuple(ckpt, t)]
               /\ baseLen' = [baseLen EXCEPT ![r] = Len(GetTuple(ckpt, t))]
               /\ pc' = [pc EXCEPT ![r] = "start"]
               /\ UNCHANGED <<outcome, resp, sent, lastFin, faults>>
            \/ /\ faults < cap.faults
               /\ faults' = faults + 1
               /\ pc' = [pc EXCEPT ![r] = "responded"]
               /\ outcome' = [outcome EXCEPT ![r] = "load_error"]
               /\ resp' = [resp EXCEPT ![r] = ErrorResponse]
               /\ sent' = [sent EXCEPT ![r] = @ + 1]
               /\ lastFin' = [lastFin EXCEPT ![t] = r]
               /\ UNCHANGED <<msgs, baseLen>>
  /\ UNCHANGED <<cap, steps, ckpt, searchLog, toolReqs, richUsed, lastNode,
                 lastWriter, employees, seed, search>>

\* A step of run r ends: its writes `add` are reduced into the messages
\* channel and the state is saved as the thread's latest checkpoint; `fc`
\* faults were used by the step itself.  A failing save aborts the run.
Commit(r, add, nxt, fc) ==
  /\ msgs' = [msgs EXCEPT ![r] = Reducer(@, add)]
  /\ \/ /\ ckpt' = PutCheckpoint(ckpt, thread[r], Reducer(msgs[r], add))
        /\ lastWriter' = [lastWriter EXCEPT ![thread[r]] = r]
        /\ pc' = [pc EXCEPT ![r] = nxt]
        /\ faults' = faults + fc
        /\ UNCHANGED <<outcome, resp, sent, lastFin>>
     \/ /\ faults + fc < cap.faults
        /\ faults' = faults + fc + 1
        /\ Throw(r, "save_error")
        /\ UNCHANGED <<ckpt, lastWriter>>

\* The loaded state is checkpointed with { messages: [HumanMessage] } waiting
\* in the __start__ channel, and the __start__ superstep writes it to the
\* messages channel; no await on I/O separates the two checkpoints.
Start(r) ==
  /\ pc[r] = "start"
  /\ Commit(r, <<HumanMessage(r)>>, "agent", 0)
  /\ UNCHANGED <<cap, arrived, kind, thread, steps, searchLog, toolReqs,
                 richUsed, lastNode, baseLen, prev, overlap, employees,
                 seed, search>>

\* the agent node, callModel: the chat model answers with one AI message (or
\* fails); then the conditional edge shouldContinue picks the next node
Agent(r) ==
  /\ pc[r] = "agent"
  /\ IF OutOfSteps(steps[r])
     THEN /\ Throw(r, "recursion")
          /\ UNCHANGED <<msgs, steps, ckpt, toolReqs, richUsed, faults,
                         lastNode, lastWriter>>
     ELSE \/ /\ faults < cap.faults
             /\ faults' = faults + 1
             /\ Throw(r, "model_error")
             /\ UNCHANGED <<msgs, steps, ckpt, toolReqs, richUsed, lastNode,
                            lastWriter>>
          \/ \E tc \in BOOLEAN :
               \E cs \in {<<>>} \cup (IF tc THEN CallLists(r, steps[r] + 1) ELSE {}) :
                 LET rich == ~tc \/ (cs # <<>> /\ cs # DefaultCalls(r, steps[r] + 1))
                     m == AIMessage(r, steps[r] + 1, tc, cs)
                 IN /\ rich => richUsed < cap.rich
                    /\ cs # <<>> => toolReqs < cap.tools
                    /\ richUsed' = richUsed + (IF rich THEN 1 ELSE 0)
                    /\ toolReqs' = toolReqs + (IF cs # <<>> THEN 1 ELSE 0)
                    /\ steps' = [steps EXCEPT ![r] = @ + 1]
                    /\ lastNode' = [lastNode EXCEPT ![r] = "agent"]
                    /\ Commit(r, <<m>>, ShouldContinue(Reducer(msgs[r], <<m>>)), 0)
  /\ UNCHANGED <<cap, arrived, kind, thread, searchLog, baseLen, prev, overlap,
                 employees, seed, search>>

\* The tools node, ToolNode, runs employee_lookup for every call of the last
\* AI message, all calls in flight together; each tool body awaits its
\* similarity search, and other requests run meanwhile.
\* The ceiling is checked before the tools superstep starts.
ToolsCeiling(r) ==
  /\ pc[r] = "tools"
  /\ OutOfSteps(steps[r])
  /\ Throw(r, "recursion")
  /\ UNCHANGED <<cap, arrived, kind, thread, msgs, steps, ckpt, searchLog,
                 toolReqs, richUsed, faults, lastNode, baseLen, prev, overlap,
                 lastWriter, search, employees, seed>>

\* The similarity search of one call that passed the schema is issued and
\* answered, with a result or with an error, in any order among the calls
\* in flight; the messages and the checkpoint still end with the AI message.
ToolsSearch(r) ==
  /\ pc[r] = "tools"
  /\ ~OutOfSteps(steps[r])
  /\ LET cs == Last(msgs[r]).calls
     IN \E i \in BodyCalls(cs) \ search[r].done :
          \E fault \in BOOLEAN :
            /\ fault => (ZodParse(cs[i].n) > 0 /\ faults < cap.faults)
            /\ faults' = faults + (IF fault THEN 1 ELSE 0)
            /\ searchLog' = searchLog \cup
                 {[id |-> cs[i].id, k |-> ZodParse(cs[i].n)]}
            /\ employees' = SearchCollection(employees, ZodParse(cs[i].n))
            /\ search' = [search EXCEPT ![r] =
                            [done |-> @.done \cup {i},
                             failed |-> @.failed \cup (IF fault THEN {i} ELSE {})]]
  /\ UNCHANGED <<cap, arrived, kind, thread, pc, msgs, steps, outcome, resp,
                 sent, ckpt, toolReqs, richUsed, lastNode, baseLen, prev,
                 overlap, lastFin, lastWriter, seed>>

\* Every tool body has returned or thrown: the ToolMessages are written to
\* the messages channel and the state is checkpointed; the edge tools ->
\* agent follows.
ToolsCommit(r) ==
  /\ pc[r] = "tools"
  /\ ~OutOfSteps(steps[r])
  /\ LET cs == Last(msgs[r]).calls
     IN /\ BodyCalls(cs) \subseteq search[r].done
        /\ steps' = [steps EXCEPT ![r] = @ + 1]
        /\ lastNode' = [lastNode EXCEPT ![r] = "tools"]
        /\ search' = [search EXCEPT ![r] = NoSearch]
        /\ Commit(r, ToolNode(r, steps[r] + 1, cs, search[r].failed),
                  ToolsEdge, 0)
  /\ UNCHANGED <<cap, arrived, kind, thread, searchLog, toolReqs, richUsed,
                 baseLen, prev, overlap, employees, seed>>

\* the tools node
Tools(r) == ToolsCeiling(r) \/ ToolsSearch(r) \/ ToolsCommit(r)

\* the graph has no next node: app.invoke returns the final state, callAgent
\* the content of its last message, and the route answers with it
Finish(r) ==
  /\ pc[r] = "end"
  /\ IF OutOfSteps(steps[r])
     THEN Throw(r, "recursion")
     ELSE /\ pc' = [pc EXCEPT ![r] = "responded"]
          /\ outcome' = [outcome EXCEPT ![r] = "ok"]
          /\ resp' = [resp EXCEPT ![r] =
                        OkResponse(kind[r], thread[r], FinalAnswer(msgs[r]))]
          /\ sent' = [sent EXCEPT ![r] = @ + 1]
          /\ lastFin' = [lastFin EXCEPT ![thread[r]] = r]
  /\ UNCHANGED <<cap, arrived, kind, thread, msgs, steps, ckpt, searchLog,
                 toolReqs, richUsed, faults, lastNode, baseLen, prev, overlap,
                 lastWriter, employees, seed, search>>

Next ==
  \/ \E r \in Runs : Request(r)
  \/ \E r \in Runs : Start(r)
  \/ \E r \in Runs : Agent(r)
  \/ \E r \in Runs : Tools(r)
  \/ \E r \in Runs : Finish(r)

Spec == Init /\ [][Next]_vars

(***************************************************************************)
(* seedDatabase, the seeding script, run against a collection with any of  *)
(* the earlier contents.  Every await on an external service can reject:   *)
(* the catch logs the error, the finally closes the client, and the        *)
(* function returns.                                                       *)
(***************************************************************************)
\* catch (error) { console.error(...) } finally { await client.close() }
SeedCaught == [pc |-> "done", data |-> <<>>, ok |-> FALSE]

SeedInit ==
  /\ Begin(Threads)
  /\ employees \in EarlierStores
  /\ seed = [pc |-> "connect", data |-> <<>>, ok |-> TRUE]

\* await client.connect(); await client.db("admin").command({ ping: 1 })
SeedConnect ==
  /\ seed.pc = "connect"
  /\ \/ seed' = [seed EXCEPT !.pc = "clear"]
     \/ seed' = SeedCaught
  /\ UNCHANGED <<agentVars, employees>>

\* await collection.deleteMany({})
SeedClear ==
  /\ seed.pc = "clear"
  /\ \/ /\ employees' = DeleteMany(employees)
        /\ seed' = [seed EXCEPT !.pc = "generate"]
     \/ /\ seed' = SeedCaught
        /\ UNCHANGED employees
  /\ UNCHANGED agentVars

\* syntheticData = await generateSyntheticData(), then the summaries
SeedGenerate ==
  /\ seed.pc = "generate"
  /\ \/ \E data \in Generated :
          seed' = [seed EXCEPT !.pc = "insert",
                               !.data = RecordsWithSummaries(data)]
     \/ seed' = SeedCaught
  /\ UNCHANGED <<agentVars, employees>>

\* one turn of for (const record of recordsWithSummaries):
\* await MongoDBAtlasVectorSearch.fromDocuments([record], ...)
SeedInsert ==
  /\ seed.pc = "insert"
  /\ seed.data # <<>>
  /\ \/ /\ employees' = FromDocuments(employees, Head(seed.data))
        /\ seed' = [seed EXCEPT !.data = Tail(@)]
     \/ /\ seed' = SeedCaught
        /\ UNCHANGED employees
  /\ UNCHANGED agentVars

\* the loop is over: "Database seeding completed", finally client.close()
SeedComplete ==
  /\ seed.pc = "insert"
  /\ seed.data = <<>>
  /\ seed' = [seed EXCEPT !.pc = "done"]
  /\ UNCHANGED <<agentVars, employees>>

SeedNext ==
  \/ SeedConnect
  \/ SeedClear
  \/ SeedGenerate
  \/ SeedInsert
  \/ SeedComplete

SeedSpec == SeedInit /\ [][SeedNext]_vars

(***************************************************************************)
(* Properties.                                                             *)
(***************************************************************************)
Started(r) == pc[r] # "idle" /\ outcome[r] # "load_error"
Ended(r) == pc[r] = "responded"
CheckpointFailed(r) == outcome[r] \in {"load_error", "save_error"}
Elems(s) == {s[i] : i \in 1..Len(s)}
\* the sequence run r loaded
Base(r) == SubSeq(msgs[r], 1, baseLen[r])
\* the tool calls a message carries, as a set
CallsOf(m) == Elems(m.calls)

\* C1: messages appended by a run under one thread id are never in the
\* sequence loaded by a run under another thread id, nor in the sequence
\* persisted under another thread id.
C1_ThreadIsolation ==
  /\ \A r \in Runs : \A m \in Elems(msgs[r]) : thread[m.run] = thread[r]
  /\ \A t \in ThreadIds : \A m \in Elems(ckpt[t]) : thread[m.run] = t

\* two runs under different thread ids in progress together, each past its
\* first agent step, each thread with a persisted sequence
C1_Witness ==
  \E r, q \in Runs :
    /\ thread[r] # thread[q]
    /\ pc[r] \in InProgress /\ pc[q] \in InProgress
    /\ steps[r] >= 1 /\ steps[q] >= 1
    /\ ckpt[thread[r]] # <<>> /\ ckpt[thread[q]] # <<>>

\* C2: every step of a run leaves the previous message sequence of the run
\* as an unchanged prefix and only adds at the end (so the length never
\* shrinks below the loaded length and nothing is reordered or rewritten).
C2_AppendOnly ==
  [][\A r \in Runs : IsPrefix(msgs[r], msgs'[r])]_vars

\* a run that loaded a history and has appended a human, an AI and a tool
\* message to it
C2_Witness ==
  \E r \in Runs :
    /\ baseLen[r] > 0
    /\ Len(msgs[r]) >= baseLen[r] + 3
    /\ prev[r] # 0 /\ Base(r) = msgs[prev[r]]
    /\ \E m \in Elems(msgs[r]) : m.run = r /\ m.role = "tool"

\* what a next run under r's thread would load is what run r ended with
RoundTrip(r) == GetTuple(ckpt, thread[r]) = msgs[r]

\* C3 as stated: when a run under T has completed and no other run under T
\* is in progress, the next run under T starts from exactly the sequence
\* that run ended with.
C3_Original ==
  \A r \in Runs :
    (outcome[r] = "ok" /\ lastFin[thread[r]] = r /\ Active(thread[r]) = {})
      => RoundTrip(r)

\* C3, amended: when a run under T has ended without a checkpoint failure
\* and never was in progress together with another run under T, what is
\* persisted under T is the sequence it ended with; and the next run under
\* T, if it overlaps no other run either, starts from exactly that sequence
\* followed by its own human message.
C3_RoundTrip ==
  /\ \A r \in Runs :
       (/\ Ended(r) /\ ~CheckpointFailed(r) /\ ~overlap[r]
        /\ lastFin[thread[r]] = r /\ Active(thread[r]) = {})
         => RoundTrip(r)
  /\ \A q \in Runs :
       (/\ Started(q) /\ prev[q] # 0 /\ ~overlap[q]
        /\ ~overlap[prev[q]] /\ ~CheckpointFailed(prev[q]))
         => /\ Base(q) = msgs[prev[q]]
            /\ pc[q] # "start" =>
                 /\ Len(msgs[q]) > baseLen[q]
                 /\ msgs[q][baseLen[q] + 1] = HumanMessage(q)

\* a run that used the tool and returned an answer, and the next run under
\* its thread, started from its final sequence and past its own agent step
C3_Witness ==
  \E q \in Runs :
    /\ prev[q] # 0 /\ outcome[prev[q]] = "ok" /\ steps[prev[q]] >= 3
    /\ ~overlap[q] /\ ~overlap[prev[q]]
    /\ steps[q] >= 1
    /\ Base(q) = msgs[prev[q]]

\* every agent step of run r so far has requested the tool
KeepsRequesting(r) ==
  \A m \in Elems(msgs[r]) : (m.run = r /\ m.role = "ai") => m.calls # <<>>

\* C4: a run never executes more than 15 node supersteps; a run whose agent
\* steps all requested the tool and that has executed 15 takes no further
\* node step: it is aborted (a fatal error, never an answer) and the route
\* answers 500 without answer text.
C4_TurnCeiling ==
  \A r \in Runs :
    /\ steps[r] <= 15
    /\ (steps[r] = 15 /\ KeepsRequesting(r)) =>
          /\ pc[r] \in {"tools", "responded"}
          /\ ~ENABLED (ToolsSearch(r) \/ ToolsCommit(r))
          /\ Ended(r) =>
               /\ outcome[r] \in {"recursion", "save_error"}
               /\ resp[r].status = 500 /\ resp[r].response = NoText
    /\ outcome[r] = "recursion" =>
          /\ steps[r] = 15
          /\ resp[r].status = 500 /\ resp[r].response = NoText

\* a run in which every agent step requested the tool, aborted at the
\* ceiling
C4_Witness ==
  \E r \in Runs :
    /\ outcome[r] = "recursion" /\ steps[r] = 15 /\ KeepsRequesting(r)
    /\ Cardinality({m \in Elems(msgs[r]) : m.role = "tool"}) = 7

\* C5: a request gets at most one response, and gets it exactly when its
\* run has ended; when callAgent failed (a load, save or chat model failure,
\* the turn ceiling) the response is 500 {error: 'Internal server error'}
\* without answer text; when it succeeded the response carries the answer,
\* and the thread id for POST /chat; a request in progress can always take
\* its next step.
C5_OneResponse ==
  \A r \in Runs :
    /\ sent[r] = (IF Ended(r) THEN 1 ELSE 0)
    /\ (Ended(r) /\ outcome[r] # "ok") =>
          /\ outcome[r] \in {"load_error", "save_error", "model_error", "recursion"}
          /\ resp[r].status = 500
          /\ resp[r].error = "Internal server error"
          /\ resp[r].response = NoText /\ resp[r].threadId = <<>>
    /\ outcome[r] = "ok" =>
          /\ Ended(r)
          /\ resp[r].status = 200 /\ resp[r].error = ""
          /\ resp[r].response = Last(msgs[r]).content
          /\ resp[r].threadId = (IF kind[r] = "new" THEN thread[r] ELSE <<>>)
    /\ ~Ended(r) => resp[r] = NoResponse
    /\ pc[r] \in InProgress =>
          ENABLED (Start(r) \/ Agent(r) \/ Tools(r) \/ Finish(r))

\* of two requests one was answered 200 with its thread id and one 500
C5_Witness ==
  \E r, q \in Runs :
    /\ outcome[r] = "ok" /\ kind[r] = "new" /\ resp[r].threadId = thread[r]
    /\ Ended(q) /\ outcome[q] # "ok" /\ resp[q].status = 500

\* C6 as stated: a call of employee_lookup whose n is given and is not a
\* positive integer never reaches the tool body: no similarity search is
\* issued for it.
C6_InvalidNRejected ==
  \A r \in Runs : \A m \in Elems(msgs[r]) : \A c \in CallsOf(m) :
    (c.n.kind = "number" /\ c.n.val <= 0) =>
      ~\E e \in searchLog : e.id = c.id

\* C7: when no run under a thread id is in progress, the sequence persisted
\* under it is the sequence written last by the run that saved last: the
\* whole state of that run as of its last save, whatever the other runs
\* under the thread id had written.
C7_LastWriteWins ==
  \A t \in ThreadIds :
    (lastWriter[t] # 0 /\ Active(t) = {}) =>
       /\ IsPrefix(ckpt[t], msgs[lastWriter[t]])
       /\ outcome[lastWriter[t]] # "save_error" => ckpt[t] = msgs[lastWriter[t]]

\* two runs under one thread id that were in progress together have both
\* returned an answer; the messages of the one that did not save last are
\* lost
C7_Witness ==
  \E r, q \in Runs :
    /\ r # q /\ thread[r] = thread[q] /\ overlap[r] /\ overlap[q]
    /\ outcome[r] = "ok" /\ outcome[q] = "ok"
    /\ lastWriter[thread[r]] = r
    /\ ckpt[thread[r]] = msgs[r]
    /\ \A m \in Elems(ckpt[thread[r]]) : m.run # q

\* C8: a run that returns an answer stopped at the end node, and the answer
\* is the content of the last message of its final state, which is the AI
\* message of the last agent step of this run and carries no tool calls.
C8_AnswerIsLastAI ==
  \A r \in Runs :
    /\ pc[r] = "end" => lastNode[r] = "agent"
    /\ outcome[r] = "ok" =>
          /\ lastNode[r] = "agent"
          /\ resp[r].response = Last(msgs[r]).content
          /\ Last(msgs[r]).role = "ai"
          /\ Last(msgs[r]).run = r
          /\ Last(msgs[r]).at = steps[r]
          /\ Last(msgs[r]).calls = <<>>
          /\ resp[r].response = <<r, steps[r], 0>>

\* a run that continued a thread, used the tool and returned an answer
C8_Witness ==
  \E r \in Runs :
    /\ outcome[r] = "ok" /\ baseLen[r] > 0 /\ steps[r] >= 3
    /\ resp[r].response = <<r, steps[r], 0>>

\* C9: after an agent step the run goes to the tools node if and only if
\* the last message carries one or more tool calls; with no tool_calls
\* field or an empty list it goes to end.
C9_Routing ==
  \A r \in Runs :
    (lastNode[r] = "agent" /\ pc[r] \in InProgress) =>
       /\ pc[r] \in {"tools", "end"}
       /\ pc[r] = "tools" <=> Len(Last(msgs[r]).calls) >= 1
       /\ (~Last(msgs[r]).hasTC \/ Last(msgs[r]).calls = <<>>) => pc[r] = "end"

\* a run whose first agent step went to tools and whose second, answering
\* with an empty tool_calls list, went to end
C9_Witness ==
  \E r \in Runs :
    /\ pc[r] = "end" /\ steps[r] = 3
    /\ Last(msgs[r]).hasTC /\ Last(msgs[r]).calls = <<>>

\* the messages the last node superstep of run r appended
Appended(r) ==
  SelectSeq(msgs[r], LAMBDA m : m.run = r /\ m.at = steps[r])

\* C10: a tools step appends one tool message per call of the AI message
\* before it, in call order and with the call's id, and the run goes on to
\* an agent step that the ceiling lets run: after a tools step the run
\* neither ends with an answer or at the ceiling nor takes a tools step.
C10_ToolsStep ==
  \A r \in Runs :
    lastNode[r] = "tools" =>
      LET new == Appended(r)
          ai == msgs[r][Len(msgs[r]) - Len(new)]
      IN /\ SubSeq(msgs[r], Len(msgs[r]) - Len(new) + 1, Len(msgs[r])) = new
         /\ ai.role = "ai" /\ ai.run = r /\ ai.at = steps[r] - 1
         /\ Len(new) = Len(ai.calls)
         /\ \A i \in 1..Len(new) :
              new[i].role = "tool" /\ new[i].call_id = ai.calls[i].id
         /\ pc[r] \in InProgress => (pc[r] = "agent" /\ steps[r] < 15)
         /\ Ended(r) => outcome[r] \in {"model_error", "save_error"}

\* a tools step has answered an AI message of two calls, the first with an
\* error and the second with a result, and the run is at the agent node
C10_Witness ==
  \E r \in Runs :
    /\ lastNode[r] = "tools" /\ pc[r] = "agent"
    /\ Len(Appended(r)) = 2
    /\ ~Appended(r)[1].ok /\ Appended(r)[2].ok

\* the AI message the last tools step of run r answered
Answered(r) == msgs[r][Len(msgs[r]) - Len(Appended(r))]

\* call i of the answered AI message passed the schema with a usable limit
\* and failed inside the tool body: the embedding service or the similarity
\* search was unavailable
BodyFailed(r, i) ==
  /\ i \in BodyCalls(Answered(r).calls)
  /\ ZodParse(Answered(r).calls[i].n) > 0
  /\ ~Appended(r)[i].ok

\* C11 as stated: after a tools step, a call with malformed arguments has a
\* failed tool result and, when no call failed inside the tool body, the run
\* continues with an agent step; a call that failed inside the tool body
\* (embedding service or similarity search) has aborted the run.
C11_FailureKinds ==
  \A r \in Runs :
    lastNode[r] = "tools" =>
      LET cs == Answered(r).calls
          failed == {i \in 1..Len(cs) : BodyFailed(r, i)}
      IN /\ \A i \in 1..Len(cs) : ~ZodValid(cs[i].n) => ~Appended(r)[i].ok
         /\ failed = {} =>
              (pc[r] = "agent" \/ outcome[r] \in {"save_error", "model_error"})
         /\ failed # {} => (Ended(r) /\ outcome[r] # "ok")

\* the searches issued by run r
SearchesOf(r) == {e \in searchLog : e.id[1] = r}

\* C12: a callAgent run leaves the Record Store as it was, whatever the
\* number of its agent and tools steps and however it ends; the seeding is
\* not touched either; and a thread's checkpoint is written by runs of that
\* thread only: a thread no run was called with has no checkpoint, and the
\* run that saved last under a thread id was called with it.
C12_StoreUntouched ==
  /\ employees = SeededStore
  /\ seed = NotSeeding
  /\ \A t \in ThreadIds :
       /\ (\A r \in Runs : Started(r) => thread[r] # t) => ckpt[t] = <<>>
       /\ ckpt[t] # <<>> => (lastWriter[t] # 0 /\ thread[lastWriter[t]] = t)

\* a run has ended after two tools steps that each ran the similarity
\* search, next to a thread id no run was called with
C12_Witness ==
  \E r \in Runs :
    /\ Ended(r) /\ steps[r] >= 4
    /\ Cardinality({e.id[2] : e \in SearchesOf(r)}) >= 2
    /\ \E t \in ThreadIds : t # thread[r] /\ ckpt[t] = <<>>
    /\ employees # <<>>

\* two stored documents have the same employee_id
DuplicateIds ==
  \E i, j \in 1..Len(employees) :
    i # j /\ employees[i].employee_id = employees[j].employee_id

\* C13 as stated: after seedDatabase has finished, no two stored employee
\* records have the same employee_id, whatever the data generator returned.
C13_UniqueEmployeeId == seed.pc = "done" => ~DuplicateIds

\* C14: shouldContinue is the conditional edge after agent and nothing else:
\* a run is at the tools node or at the end only straight after an agent
\* step, and the state that edge was evaluated on ends with the AI message
\* that agent step of the same run produced, never with a human or tool
\* message, also when the run started from a restored history.
C14_EvaluatedOnNewAI ==
  \A r \in Runs :
    /\ pc[r] \in {"tools", "end"} => lastNode[r] = "agent"
    /\ lastNode[r] = "agent" =>
         /\ Len(msgs[r]) > baseLen[r] + 1
         /\ Last(msgs[r]).role = "ai"
         /\ Last(msgs[r]).run = r
         /\ Last(msgs[r]).at = steps[r]
         /\ pc[r] \in InProgress => pc[r] = ShouldContinue(msgs[r])

\* a run that restored a history ending with another run's AI message has
\* been routed to the tools node by its own agent step
C14_Witness ==
  \E r \in Runs :
    /\ baseLen[r] > 0
    /\ Last(Base(r)).role = "ai" /\ Last(Base(r)).run # r
    /\ lastNode[r] = "agent" /\ pc[r] = "tools"
    /\ Last(msgs[r]).run = r

\* every tool call of an AI message of ms is answered by a tool message with
\* the call's id before any later human or AI message
ToolCallsAnswered(ms) ==
  \A i \in 1..Len(ms) :
    ms[i].role = "ai" =>
      \A c \in CallsOf(ms[i]) :
        \E j \in (i + 1)..Len(ms) :
          /\ ms[j].call_id = c.id
          /\ \A k \in (i + 1)..j : ms[k].role = "tool"

\* run r is about to invoke the chat model with msgs[r]
AtModelCall(r) == pc[r] = "agent" /\ ~OutOfSteps(steps[r])

\* C15 as stated, for the runs of POST /chat/:threadId that were never in
\* progress together with another run of their thread: in the sequence the
\* chat model is invoked with at any agent step, every tool call of an
\* earlier AI message is answered by a tool result with the same call_id
\* before any later human or AI message, also when the run continues a
\* thread whose previous run was aborted after an agent step that requested
\* tools.
C15_ToolCallsAnswered ==
  \A r \in Runs :
    (AtModelCall(r) /\ kind[r] = "continue" /\ ~overlap[r])
      => ToolCallsAnswered(msgs[r])

\* C16 as stated: two POST /chat requests never get the same thread id,
\* also when they arrive at the same clock reading; so the run of a POST
\* /chat request holds no message of the run of another one.
C16_FreshThread ==
  \A r, q \in Runs :
    (r # q /\ kind[r] = "new" /\ kind[q] = "new") =>
       /\ thread[r] # thread[q]
       /\ \A m \in Elems(msgs[r]) : m.run # q
=============================================================================
